---- MODULE Spec2Model ----
(***************************************************************************)
(* Model of server.js: an Express/WebSocket front end that spawns yt-dlp   *)
(* and streams its stdout to the HTTP response.  The file holds three      *)
(* variants of the server:                                                 *)
(*   "retrying"  lines    1-434   rate limiter + tryDownloadWithFallbacks  *)
(*   "simple"    lines  436-711   metadata prefetch + stdout.pipe(res)     *)
(*   "limited"   lines  713-1083  rate limiter + metadata + pipe(res)      *)
(* One behaviour of the model is one run of one variant.                   *)
(***************************************************************************)
EXTENDS Integers, Sequences, FiniteSets, TLC

VARIABLES
    variant,          \* which of the three servers is running
    now,              \* Date.now(), in ms
    rateLimitMap,     \* ip -> list of accepted request instants
    activeDownloads,  \* video id -> entry, or NoEntry
    metadataCache,    \* video id -> metadata, or NoMeta
    reqs,             \* the /download requests received, with their response
    procs,            \* the extraction subprocesses spawned, by pid
    metaProcs,        \* the metadata subprocesses spawned
    timers,           \* pending setTimeout(..., 2000) retry callbacks
    crashed,          \* an uncaught exception ended the node process
    clients,          \* the WebSocket peers: socket state and messages sent
    metaTimers,       \* pending setTimeout(..., 3600000) cache expiries
    searches          \* the /search requests answered

vars == <<variant, now, rateLimitMap, activeDownloads, metadataCache,
          reqs, procs, metaProcs, timers, crashed, clients, metaTimers,
          searches>>

(***************************************************************************)
(* Bounds of the model.                                                    *)
(***************************************************************************)
MaxReq == 1        \* requests per behaviour of Spec
MaxRateReq == 4    \* requests per behaviour of SpecRate
MaxProcs == 4      \* extraction subprocesses per behaviour of Spec
MaxStdout == 2     \* stdout chunks per behaviour of Spec
MaxStderr == 1     \* stderr chunks per behaviour of Spec
MaxClock == 90000 \* last clock reading, ms

Variants == {"retrying", "simple", "limited"}
IPs == {"ip1", "ip2"}
Ids == {"v1", "v2"}
NoId == ""
TickSteps == {29999, 30000}

NoEntry == [process |-> 0, progress |-> 0, attempt |-> 0]
NoMeta == [title |-> "", duration |-> 0, uploader |-> ""]

(***************************************************************************)
(* Rate limiter.                                                           *)
(***************************************************************************)
RATE_LIMIT_WINDOW == 60 * 1000
RATE_LIMIT_MAX == 3

HasRateLimit == variant \in {"retrying", "limited"}

\* mutant: the window test is off by one (<= for <)
recentRequestsInclusive(ip) ==
    SelectSeq(rateLimitMap[ip], LAMBDA time : now - time <= RATE_LIMIT_WINDOW)

\* userRequests.filter(time => now - time < RATE_LIMIT_WINDOW)
recentRequests(ip) ==
    SelectSeq(rateLimitMap[ip], LAMBDA time : now - time < RATE_LIMIT_WINDOW)

\* the value checkRateLimit(ip) returns
checkRateLimit(ip) == ~(Len(recentRequests(ip)) >= RATE_LIMIT_MAX)

\* mutant: the instant of a rejected call is recorded as well
rateLimitMapAfterRecording(ip) ==
    [rateLimitMap EXCEPT ![ip] = Append(recentRequests(ip), now)]

\* rateLimitMap after checkRateLimit(ip) has run
rateLimitMapAfter(ip) ==
    IF Len(recentRequests(ip)) >= RATE_LIMIT_MAX
    THEN rateLimitMap
    ELSE [rateLimitMap EXCEPT ![ip] = Append(recentRequests(ip), now)]

(***************************************************************************)
(* HTTP responses.                                                         *)
(***************************************************************************)
NoPayload == [kind |-> "none", text |-> "", error |-> "", retryAfter |-> 0,
              attempts |-> 0]

\* a fresh http.ServerResponse; dropped: the peer closed the connection
\* (res.destroyed)
NewRes == [hdrs |-> FALSE, headersSent |-> FALSE, status |-> 200,
           body |-> <<>>, payload |-> NoPayload, ended |-> FALSE,
           dropped |-> FALSE]

\* res.send(text) / res.status(s).send(text)
resSend(res, s, text) ==
    [res EXCEPT !.headersSent = TRUE, !.status = s, !.ended = TRUE,
                !.payload = [NoPayload EXCEPT !.kind = "text", !.text = text]]

\* res.status(s).json(obj)
resJson(res, s, obj) ==
    [res EXCEPT !.headersSent = TRUE, !.status = s, !.ended = TRUE,
                !.payload = [obj EXCEPT !.kind = "json"]]

\* res.write(data): the first write flushes the headers; on a destroyed
\* response write() returns false before any header is generated
resWrite(res, data) ==
    IF res.ended \/ res.dropped THEN res
    ELSE [res EXCEPT !.headersSent = TRUE, !.body = Append(@, data)]

\* res.end()
resEnd(res) == [res EXCEPT !.headersSent = TRUE, !.ended = TRUE]

(***************************************************************************)
(* Subprocess output.  A stderr chunk is modelled by the markers its text  *)
(* contains (the handlers only test output.includes(marker)) and by the    *)
(* percentage the regex /\[download\]\s+(\d+\.\d+)%/ captures, in tenths   *)
(* of a percent; NoPct when the regex does not match.                      *)
(***************************************************************************)
NoPct == 0 - 1
LineExtract == [marks |-> {"Extracting URL"}, pct |-> NoPct]
LinePercent == [marks |-> {"[download]", "%"}, pct |-> 425]
LineBot == [marks |-> {"Sign in to confirm", "bot", "cookies",
                      "Sign in to confirm you're not a bot"}, pct |-> NoPct]
LinePlain == [marks |-> {}, pct |-> NoPct]
\* "[download] 100% of 3.50MiB": both markers, no decimal point for the regex
LineWhole == [marks |-> {"[download]", "%"}, pct |-> NoPct]
StderrChunks == {LineExtract, LinePercent, LineBot, LinePlain}

(***************************************************************************)
(* Subprocess events, as node's child_process delivers them.  A subprocess *)
(* that ran ends with 'close' and its exit code, after its stdout reached  *)
(* EOF (so a piped response is ended before the 'close' handler runs).     *)
(* 'error' is emitted only for a failed spawn, since the server never      *)
(* kills, signals or sends to the child: such a subprocess produces no     *)
(* output, and 'close' follows in the same tick with the negative errno    *)
(* as its code (-2 is ENOENT).                                             *)
(***************************************************************************)
ExitCodes == {0, 1, 2}
SpawnErrCode == 0 - 2

maxAttempts == 3

\* setTimeout(..., 2000) between attempts; setTimeout(..., 3600000) for the
\* metadata cache
RETRY_DELAY == 2000
METADATA_TTL == 3600000

\* mutant: the second attempt reuses the first attempt's table
StrategyRepeated(attempt) ==
    IF attempt <= 2
    THEN [client |-> "android,web", ua |-> "Android 10; SM-G973F",
          format |-> "bestaudio[ext=webm]/bestaudio[ext=m4a]/bestaudio"]
    ELSE [client |-> "web", ua |-> "Windows NT 10.0; Win64; x64",
          format |-> "bestaudio"]

\* the player-client / user-agent / format table of tryDownloadWithFallbacks
Strategy(attempt) ==
    IF attempt = 1
    THEN [client |-> "android,web", ua |-> "Android 10; SM-G973F",
          format |-> "bestaudio[ext=webm]/bestaudio[ext=m4a]/bestaudio"]
    ELSE IF attempt = 2
    THEN [client |-> "ios,web", ua |-> "iPhone; CPU iPhone OS 15_0",
          format |-> "bestaudio[ext=webm]/bestaudio[ext=m4a]/bestaudio"]
    ELSE [client |-> "web", ua |-> "Windows NT 10.0; Win64; x64",
          format |-> "bestaudio"]

\* the static argument lists of the two piping variants; the limited one
\* draws its user agent from four desktop browsers (getRandomUserAgent)
SimpleArgs ==
    IF variant = "simple"
    THEN [client |-> "", ua |-> "", format |-> "bestaudio"]
    ELSE [client |-> "skip=hls,dash", ua |-> "desktop",
          format |-> "bestaudio[ext=webm]/bestaudio[ext=m4a]/bestaudio"]

\* a subprocess just spawned; listeners says whether the code went on to
\* attach its stdout/stderr/close/error handlers
NewProc(r, id, attempt, args, listeners) ==
    [req |-> r, id |-> id, attempt |-> attempt, args |-> args,
     listeners |-> listeners, st |-> "running", started |-> FALSE,
     hasData |-> FALSE, errorOutput |-> {}, nout |-> 0, nerr |-> 0,
     stdoutEnded |-> FALSE, code |-> 0]

\* a metadata subprocess just spawned: spawn(YT_DLP_CMD, metadataArgs);
\* storedAt is the instant its 'close' handler stored an entry, if it did
NewMetaProc(r, id) ==
    [id |-> id, req |-> r, st |-> "running", code |-> 0, out |-> "",
     storedAt |-> NoPct]

NewReq(ip, id) ==
    [ip |-> ip, id |-> id, t |-> now, outcome |-> "", res |-> NewRes,
     events |-> <<>>, promise |-> "none"]

NoEvent == [type |-> "", idField |-> "", id |-> "", phase |-> "", color |-> "",
            step |-> NoPct, percent |-> NoPct, error |-> "", attempt |-> 0]

\* wss.clients.forEach(client => client.send(JSON.stringify(ev))): the event
\* is recorded with the request whose handler closure produced it
broadcast(rs, r, ev) == [rs EXCEPT ![r].events = Append(@, ev)]

(***************************************************************************)
(* WebSocket peers.  readyState is that of the server-side socket of the   *)
(* ws library: 1 OPEN from the 'connection' event on, 2 CLOSING during the *)
(* closing handshake, 3 CLOSED; 0 stands for a peer that has not connected *)
(* yet.  wss.clients holds the sockets from 'connection' until they are    *)
(* closed.  inbox is the list of messages handed to client.send().         *)
(***************************************************************************)
Clients == {"c1", "c2"}
NoClient == [readyState |-> 0, inbox |-> <<>>]

wssClients(cs) == {c \in Clients : cs[c].readyState \in {1, 2}}

\* mutant: the readyState guard is missing
wsSendUnguarded(cs, ev) ==
    [c \in Clients |->
        IF c \in wssClients(cs)
        THEN [cs[c] EXCEPT !.inbox = Append(@, ev)]
        ELSE cs[c]]

\* mutant: only one of the open sockets is served
wsSendOne(cs, ev) ==
    [c \in Clients |->
        IF c \in wssClients(cs) /\ cs[c].readyState = 1
           /\ c = CHOOSE d \in wssClients(cs) : cs[d].readyState = 1
        THEN [cs[c] EXCEPT !.inbox = Append(@, ev)]
        ELSE cs[c]]

\* wss.clients.forEach(client => {
\*     if (client.readyState === 1) client.send(JSON.stringify(ev)) })
wsSend(cs, ev) ==
    [c \in Clients |->
        IF c \in wssClients(cs) /\ cs[c].readyState = 1
        THEN [cs[c] EXCEPT !.inbox = Append(@, ev)]
        ELSE cs[c]]

\* 'error' is followed by 'close' in the same tick: nothing else runs between
Urgent == \E p \in 1..Len(procs) : procs[p].st = "errored"

(***************************************************************************)
(* tryDownloadWithFallbacks(id, res, attempt), lines 154-366, up to the    *)
(* point where the handlers are attached.  res.setHeader throws            *)
(* ERR_HTTP_HEADERS_SENT once the headers were flushed: the executor then  *)
(* stops, the promise is rejected and no handler is attached.              *)
(***************************************************************************)
tryDownloadWithFallbacks(rs, r, id, attempt) ==
    LET thrown == rs[r].res.headersSent
        pid == Len(procs) + 1
    IN /\ procs' = Append(procs,
                          NewProc(r, id, attempt, Strategy(attempt), ~thrown))
       /\ activeDownloads' = [activeDownloads EXCEPT ![id] =
              [process |-> pid, progress |-> 0, attempt |-> attempt]]
       /\ reqs' = IF thrown
                  THEN [rs EXCEPT ![r].promise = "rejected"]
                  ELSE [rs EXCEPT ![r].res.hdrs = TRUE,
                                  ![r].promise =
                                      IF @ = "none" THEN "pending" ELSE @]

\* mutant: the metadata subprocess is spawned whatever the cache holds
simpleDownloadAlways(rs, r, id) ==
    /\ metaProcs' = Append(metaProcs, NewMetaProc(r, id))
    /\ procs' = Append(procs, NewProc(r, id, 1, SimpleArgs, TRUE))
    /\ activeDownloads' = [activeDownloads EXCEPT ![id] =
           [process |-> Len(procs) + 1, progress |-> 0, attempt |-> 0]]
    /\ reqs' = [rs EXCEPT ![r].res.hdrs = TRUE]

\* the body of the piping variants' /download handler after the gate
simpleDownload(rs, r, id) ==
    /\ metaProcs' = IF metadataCache[id] = NoMeta
                    THEN Append(metaProcs, NewMetaProc(r, id))
                    ELSE metaProcs
    /\ procs' = Append(procs, NewProc(r, id, 1, SimpleArgs, TRUE))
    /\ activeDownloads' = [activeDownloads EXCEPT ![id] =
           [process |-> Len(procs) + 1, progress |-> 0, attempt |-> 0]]
    /\ reqs' = [rs EXCEPT ![r].res.hdrs = TRUE]

(***************************************************************************)
(* app.get("/download")                                                    *)
(***************************************************************************)
\* mutant: the rate limiter runs before the id check
downloadNoIdCounted(ip, id) ==
    /\ reqs' = Append(reqs, [NewReq(ip, id) EXCEPT
                   !.outcome = "noid",
                   !.res = resSend(NewRes, 200, "video id required")])
    /\ rateLimitMap' = IF HasRateLimit THEN rateLimitMapAfter(ip)
                       ELSE rateLimitMap
    /\ UNCHANGED <<activeDownloads, procs, metaProcs>>

\* if (!id) return res.send("video id required")
downloadNoId(ip, id) ==
    /\ reqs' = Append(reqs, [NewReq(ip, id) EXCEPT
                   !.outcome = "noid",
                   !.res = resSend(NewRes, 200, "video id required")])
    /\ UNCHANGED <<rateLimitMap, activeDownloads, procs, metaProcs>>

\* mutant: the metadata prefetch runs before the rate-limit gate
downloadLimitedPrefetch(ip, id) ==
    /\ reqs' = Append(reqs, [NewReq(ip, id) EXCEPT
                   !.outcome = "limited",
                   !.res = resJson(NewRes, 429, [NoPayload EXCEPT
                               !.error = "Rate limit exceeded",
                               !.retryAfter = 60])])
    /\ rateLimitMap' = rateLimitMapAfter(ip)
    /\ metaProcs' = IF variant # "retrying" /\ metadataCache[id] = NoMeta
                    THEN Append(metaProcs, NewMetaProc(Len(reqs) + 1, id))
                    ELSE metaProcs
    /\ UNCHANGED <<activeDownloads, procs>>

\* if (!checkRateLimit(clientIP)) return res.status(429).json({...})
downloadLimited(ip, id) ==
    /\ reqs' = Append(reqs, [NewReq(ip, id) EXCEPT
                   !.outcome = "limited",
                   !.res = resJson(NewRes, 429, [NoPayload EXCEPT
                               !.error = "Rate limit exceeded",
                               !.retryAfter = 60])])
    /\ rateLimitMap' = rateLimitMapAfter(ip)
    /\ UNCHANGED <<activeDownloads, procs, metaProcs>>

\* the request passed the gate
downloadAccepted(ip, id) ==
    /\ rateLimitMap' = IF HasRateLimit THEN rateLimitMapAfter(ip)
                       ELSE rateLimitMap
    /\ LET rs == Append(reqs, [NewReq(ip, id) EXCEPT !.outcome = "accepted"])
           r == Len(reqs) + 1
       IN IF variant = "retrying"
          THEN tryDownloadWithFallbacks(rs, r, id, 1) /\ UNCHANGED metaProcs
          ELSE simpleDownload(rs, r, id)

Download(ip, id) ==
    /\ ~crashed /\ ~Urgent
    /\ IF id = NoId THEN downloadNoId(ip, id)
       ELSE IF HasRateLimit /\ ~checkRateLimit(ip) THEN downloadLimited(ip, id)
       ELSE downloadAccepted(ip, id)
    /\ UNCHANGED <<variant, now, metadataCache, timers, crashed, clients,
                   metaTimers, searches>>

\* the clock advances, no further than the next cache expiry that is due
Tick(d) ==
    /\ ~crashed /\ ~Urgent
    /\ \A t \in metaTimers : now + d <= t.due
    /\ now' = now + d
    /\ UNCHANGED <<variant, rateLimitMap, activeDownloads, metadataCache,
                   reqs, procs, metaProcs, timers, crashed, clients,
                   metaTimers, searches>>

Init ==
    /\ variant \in Variants
    /\ now = 0
    /\ rateLimitMap = [ip \in IPs |-> <<>>]
    /\ activeDownloads = [id \in Ids |-> NoEntry]
    /\ metadataCache = [id \in Ids |-> NoMeta]
    /\ reqs = <<>>
    /\ procs = <<>>
    /\ metaProcs = <<>>
    /\ timers = {}
    /\ crashed = FALSE
    /\ clients = [c \in Clients |-> NoClient]
    /\ metaTimers = {}
    /\ searches = <<>>

(***************************************************************************)
(* The stderr 'data' handlers: phase classification, lines 217-256,        *)
(* 561-617 and 897-953.                                                    *)
(***************************************************************************)
classify(chunk) ==
    IF "Extracting URL" \in chunk.marks
    THEN [phase |-> "extracting", color |-> "#ff6b6b", step |-> 1]
    ELSE IF "Downloading webpage" \in chunk.marks
    THEN [phase |-> "webpage", color |-> "#ffa500", step |-> 2]
    ELSE IF "Downloading android" \in chunk.marks \/ "player API" \in chunk.marks
    THEN [phase |-> "api", color |-> "#ffff00", step |-> 3]
    ELSE IF "Downloading m3u8" \in chunk.marks \/ "information" \in chunk.marks
    THEN [phase |-> "info", color |-> "#87ceeb", step |-> 4]
    ELSE IF "[download]" \in chunk.marks /\ "%" \in chunk.marks
    THEN [phase |-> "downloading", color |-> "#00ff00", step |-> 5]
    ELSE [phase |-> "preparing", color |-> "#ff6b6b", step |-> 0]

\* the percentage branch is taken: progressMatch is not null
isProgress(chunk) ==
    classify(chunk).phase = "downloading" /\ chunk.pct # NoPct

\* the step number at the head of `message` in a phase event: message is
\* assigned in the first four branches, and in the fifth only when the
\* regex matched, so it otherwise keeps its initial '0/5 Preparing...'
messageStep(chunk) ==
    IF classify(chunk).phase = "downloading" /\ ~isProgress(chunk) THEN 0
    ELSE classify(chunk).step

phaseEvent(p, chunk) ==
    [NoEvent EXCEPT !.type = "phase", !.idField = "id", !.id = procs[p].id,
                    !.phase = classify(chunk).phase,
                    !.color = classify(chunk).color,
                    !.step = messageStep(chunk),
                    !.attempt = IF variant = "retrying" THEN procs[p].attempt
                                ELSE 0]

\* retrying variant, lines 212-272
stderrRetrying(p, chunk) ==
    LET id == procs[p].id
        r == procs[p].req
        progressEv == [NoEvent EXCEPT !.type = "progress",
                                      !.idField = "videoId", !.id = id,
                                      !.phase = "downloading",
                                      !.percent = chunk.pct]
    IN IF isProgress(chunk)
       THEN IF activeDownloads[id] = NoEntry
            THEN \* activeDownloads.get(id) is undefined: TypeError, uncaught
                 /\ crashed' = TRUE
                 /\ UNCHANGED <<activeDownloads, reqs, clients>>
            ELSE /\ activeDownloads' =
                        [activeDownloads EXCEPT ![id].progress = chunk.pct]
                 /\ reqs' = broadcast(reqs, r, progressEv)
                 /\ clients' = wsSend(clients, progressEv)
                 /\ UNCHANGED crashed
       ELSE /\ reqs' = broadcast(reqs, r, phaseEvent(p, chunk))
            /\ clients' = wsSend(clients, phaseEvent(p, chunk))
            /\ UNCHANGED <<activeDownloads, crashed>>

\* piping variants, lines 557-633 and 893-983
stderrSimple(p, chunk) ==
    LET id == procs[p].id
        r == procs[p].req
        botError == [NoEvent EXCEPT !.type = "error", !.idField = "id",
                                    !.id = id, !.error = "bot_detection"]
        progressEv == [NoEvent EXCEPT !.type = "progress", !.idField = "id",
                                      !.id = id, !.phase = "downloading",
                                      !.color = "#00ff00",
                                      !.percent = chunk.pct]
        withPhase == broadcast(reqs, r, phaseEvent(p, chunk))
        sentPhase == wsSend(clients, phaseEvent(p, chunk))
        botLine == variant = "limited"
                   /\ ("Sign in to confirm you're not a bot" \in chunk.marks
                       \/ "cookies" \in chunk.marks)
    IN /\ UNCHANGED crashed
       /\ IF isProgress(chunk)
          THEN /\ reqs' = broadcast(reqs, r, progressEv)
               /\ clients' = wsSend(clients, progressEv)
               /\ activeDownloads' =
                      IF activeDownloads[id] # NoEntry
                      THEN [activeDownloads EXCEPT ![id].progress = chunk.pct]
                      ELSE activeDownloads
          ELSE /\ reqs' = IF botLine THEN broadcast(withPhase, r, botError)
                          ELSE withPhase
               /\ clients' = IF botLine THEN wsSend(sentPhase, botError)
                             ELSE sentPhase
               /\ UNCHANGED activeDownloads

StderrData(p, chunk) ==
    /\ ~crashed /\ ~Urgent
    /\ procs[p].st = "running" /\ procs[p].listeners
    /\ procs' = [procs EXCEPT ![p].started = TRUE, ![p].nerr = @ + 1,
                              ![p].errorOutput = @ \cup chunk.marks]
    /\ IF variant = "retrying" THEN stderrRetrying(p, chunk)
       ELSE stderrSimple(p, chunk)
    /\ UNCHANGED <<variant, now, rateLimitMap, metadataCache, metaProcs, timers,
                   metaTimers, searches>>

(***************************************************************************)
(* stdout: the 'data' handler of lines 205-210, and stdout.pipe(res) of    *)
(* lines 555 and 891, which writes every chunk and ends res on EOF.        *)
(***************************************************************************)
stdoutRetrying(res, data) ==
    IF ~res.headersSent THEN resWrite(res, data) ELSE res

StdoutData(p) ==
    /\ ~crashed /\ ~Urgent
    /\ procs[p].st = "running" /\ procs[p].listeners /\ ~procs[p].stdoutEnded
    /\ LET data == <<p, procs[p].nout + 1>>
           r == procs[p].req
       IN /\ procs' = [procs EXCEPT ![p].started = TRUE, ![p].nout = @ + 1,
                                    ![p].hasData = TRUE]
          /\ reqs' = [reqs EXCEPT ![r].res =
                         IF variant = "retrying" THEN stdoutRetrying(@, data)
                         ELSE resWrite(@, data)]
    /\ UNCHANGED <<variant, now, rateLimitMap, activeDownloads, metadataCache,
                   metaProcs, timers, crashed, clients, metaTimers, searches>>

\* a subprocess spawned without handlers writes to its stdout: the chunk
\* stays in the pipe, no 'data' handler reads it
StdoutUnread(p) ==
    /\ ~crashed /\ ~Urgent
    /\ procs[p].st = "running" /\ ~procs[p].listeners
    /\ procs' = [procs EXCEPT ![p].started = TRUE, ![p].nout = @ + 1]
    /\ UNCHANGED <<variant, now, rateLimitMap, activeDownloads, metadataCache,
                   reqs, metaProcs, timers, crashed, clients, metaTimers,
                   searches>>

\* EOF on the piped stdout: pipe() calls res.end(), unless the response
\* was closed by the peer, which unpipes it
StdoutEnd(p) ==
    /\ ~crashed /\ ~Urgent
    /\ variant # "retrying"
    /\ procs[p].st = "running" /\ ~procs[p].stdoutEnded
    /\ procs' = [procs EXCEPT ![p].started = TRUE, ![p].stdoutEnded = TRUE]
    /\ reqs' = [reqs EXCEPT ![procs[p].req].res =
                   IF @.ended \/ @.dropped THEN @ ELSE resEnd(@)]
    /\ UNCHANGED <<variant, now, rateLimitMap, activeDownloads, metadataCache,
                   metaProcs, timers, crashed, clients, metaTimers, searches>>

(***************************************************************************)
(* 'close' handlers.                                                       *)
(***************************************************************************)
settle(promise, to) == IF promise = "pending" THEN to ELSE promise

\* mutant: every failed attempt below the cap is retried
shouldRetryAlways(attempt, errorOutput, code) == attempt < maxAttempts

\* the retry test of lines 298-301
shouldRetry(attempt, errorOutput, code) ==
    attempt < maxAttempts
    /\ ("Sign in to confirm" \in errorOutput \/ "bot" \in errorOutput
        \/ code = 1)

\* retrying variant, lines 274-346
closeRetrying(p, code) ==
    LET id == procs[p].id
        r == procs[p].req
        attempt == procs[p].attempt
        ev(type) == [NoEvent EXCEPT !.type = type, !.idField = "id",
                                    !.id = id, !.attempt = attempt]
        retryingEv == [ev("phase") EXCEPT !.phase = "retrying",
                                          !.color = "#ffa500"]
        failedEv == [ev("error") EXCEPT !.error = "all_attempts_failed"]
    IN /\ activeDownloads' = [activeDownloads EXCEPT ![id] = NoEntry]
       /\ IF code = 0 /\ procs[p].hasData
          THEN /\ reqs' = [broadcast(reqs, r, ev("complete")) EXCEPT
                              ![r].res = IF ~@.headersSent THEN resEnd(@) ELSE @,
                              ![r].promise = settle(@, "resolved")]
               /\ clients' = wsSend(clients, ev("complete"))
               /\ UNCHANGED timers
          ELSE IF shouldRetry(attempt, procs[p].errorOutput, code)
          THEN /\ reqs' = broadcast(reqs, r, retryingEv)
               /\ clients' = wsSend(clients, retryingEv)
               /\ timers' = timers \cup
                      {[req |-> r, attempt |-> attempt + 1, by |-> p,
                        on |-> "close", due |-> now + RETRY_DELAY]}
          ELSE /\ clients' = wsSend(clients, failedEv)
               /\ reqs' = [broadcast(reqs, r, failedEv) EXCEPT
                              ![r].res =
                                  IF ~@.headersSent
                                  THEN resJson(@, 500, [NoPayload EXCEPT
                                           !.error = "Download failed",
                                           !.attempts = maxAttempts])
                                  ELSE @,
                              ![r].promise = settle(@, "rejected")]
               /\ UNCHANGED timers

\* mutant: the exit code is not looked at, every exit counts as a success
closeSimpleAnyCode(p, code) ==
    LET id == procs[p].id
        r == procs[p].req
        completeEv == [NoEvent EXCEPT !.type = "complete", !.idField = "id",
                                      !.id = id]
    IN /\ activeDownloads' = [activeDownloads EXCEPT ![id] = NoEntry]
       /\ UNCHANGED timers
       /\ reqs' = broadcast(reqs, r, completeEv)
       /\ clients' = wsSend(clients, completeEv)

\* simple variant, lines 654-673
closeSimple(p, code) ==
    LET id == procs[p].id
        r == procs[p].req
        completeEv == [NoEvent EXCEPT !.type = "complete", !.idField = "id",
                                      !.id = id]
    IN /\ activeDownloads' = [activeDownloads EXCEPT ![id] = NoEntry]
       /\ UNCHANGED timers
       /\ IF code = 0
          THEN /\ reqs' = broadcast(reqs, r, completeEv)
               /\ clients' = wsSend(clients, completeEv)
          ELSE /\ reqs' = [reqs EXCEPT ![r].res =
                      IF ~@.headersSent THEN resSend(@, 500, "Download failed")
                      ELSE @]
               /\ UNCHANGED clients

\* rate-limited simple variant, lines 1004-1045
closeLimited(p, code) ==
    LET id == procs[p].id
        r == procs[p].req
        completeEv == [NoEvent EXCEPT !.type = "complete", !.idField = "id",
                                      !.id = id]
        failedEv == [NoEvent EXCEPT !.type = "error", !.idField = "id",
                                    !.id = id, !.error = "download_failed"]
    IN /\ activeDownloads' = [activeDownloads EXCEPT ![id] = NoEntry]
       /\ UNCHANGED timers
       /\ IF code = 0
          THEN /\ reqs' = broadcast(reqs, r, completeEv)
               /\ clients' = wsSend(clients, completeEv)
          ELSE /\ clients' = wsSend(clients, failedEv)
               /\ reqs' = [broadcast(reqs, r, failedEv) EXCEPT
                              ![r].res =
                                  IF ~@.headersSent
                                  THEN resJson(@, 500, [NoPayload EXCEPT
                                           !.error = "Download failed"])
                                  ELSE @]

\* the subprocess has exited and its stdio is closed: 'close' with its code
Close(p, code) ==
    /\ ~crashed
    /\ \/ /\ procs[p].st = "running" /\ ~Urgent /\ code \in ExitCodes
          /\ variant # "retrying" => procs[p].stdoutEnded
       \/ procs[p].st = "errored" /\ code = SpawnErrCode
    /\ procs' = [procs EXCEPT ![p].st = "closed", ![p].code = code]
    /\ IF ~procs[p].listeners
       THEN UNCHANGED <<activeDownloads, reqs, timers, clients>>
       ELSE IF variant = "retrying" THEN closeRetrying(p, code)
       ELSE IF variant = "simple" THEN closeSimple(p, code)
       ELSE closeLimited(p, code)
    /\ UNCHANGED <<variant, now, rateLimitMap, metadataCache, metaProcs, crashed,
                   metaTimers, searches>>

(***************************************************************************)
(* 'error' handlers: the subprocess could not be spawned.                  *)
(***************************************************************************)
\* mutant: the 'error' handler retries without looking at the attempt cap
errorRetryingNoCap(p) ==
    /\ activeDownloads' = [activeDownloads EXCEPT ![procs[p].id] = NoEntry]
    /\ timers' = timers \cup
           {[req |-> procs[p].req, attempt |-> procs[p].attempt + 1,
             by |-> p, on |-> "error", due |-> now + RETRY_DELAY]}
    /\ UNCHANGED <<reqs, clients>>

\* retrying variant, lines 348-364
errorRetrying(p) ==
    LET id == procs[p].id
        r == procs[p].req
        attempt == procs[p].attempt
    IN /\ activeDownloads' = [activeDownloads EXCEPT ![id] = NoEntry]
       /\ UNCHANGED clients
       /\ IF attempt < maxAttempts
          THEN /\ timers' = timers \cup
                      {[req |-> r, attempt |-> attempt + 1, by |-> p,
                        on |-> "error", due |-> now + RETRY_DELAY]}
               /\ UNCHANGED reqs
          ELSE /\ reqs' = [reqs EXCEPT
                              ![r].res =
                                  IF ~@.headersSent
                                  THEN resJson(@, 500, [NoPayload EXCEPT
                                           !.error = "Download failed"])
                                  ELSE @,
                              ![r].promise = settle(@, "rejected")]
               /\ UNCHANGED timers

\* piping variants, lines 635-652 and 985-1002
errorSimple(p) ==
    LET id == procs[p].id
        r == procs[p].req
        errorEv == [NoEvent EXCEPT !.type = "error", !.idField = "id",
                                   !.id = id]
    IN /\ activeDownloads' = [activeDownloads EXCEPT ![id] = NoEntry]
       /\ UNCHANGED timers
       /\ clients' = wsSend(clients, errorEv)
       /\ reqs' = [broadcast(reqs, r, errorEv) EXCEPT
                      ![r].res =
                          IF ~@.headersSent
                          THEN resSend(@, 500, "Download failed")
                          ELSE @]

\* 'error' on a subprocess that produced nothing; with no listener attached
\* the EventEmitter throws and the server dies
Error(p) ==
    /\ ~crashed /\ ~Urgent
    /\ procs[p].st = "running" /\ ~procs[p].started
    /\ procs' = [procs EXCEPT ![p].st = "errored"]
    /\ IF ~procs[p].listeners
       THEN crashed' = TRUE
            /\ UNCHANGED <<activeDownloads, reqs, timers, clients>>
       ELSE /\ UNCHANGED crashed
            /\ IF variant = "retrying" THEN errorRetrying(p)
               ELSE errorSimple(p)
    /\ UNCHANGED <<variant, now, rateLimitMap, metadataCache, metaProcs,
                   metaTimers, searches>>

\* the setTimeout callback of lines 318-322 and 353-357
RetryTimer(t) ==
    /\ ~crashed /\ ~Urgent
    /\ t \in timers
    /\ timers' = timers \ {t}
    /\ tryDownloadWithFallbacks(reqs, t.req, reqs[t.req].id, t.attempt)
    /\ UNCHANGED <<variant, now, rateLimitMap, metadataCache, metaProcs,
                   crashed, clients, metaTimers, searches>>

\* mutant: a zero delay, the callback may run at once
timerDueAtOnce(t) == TRUE

\* setTimeout(callback, 2000): the callback does not run before its time
timerDue(t) == now >= t.due

\* the event loop is idle until the earliest pending retry timer is due
Elapse ==
    /\ ~crashed /\ ~Urgent
    /\ \E t \in timers :
           /\ \A u \in timers : t.due <= u.due
           /\ \A m \in metaTimers : t.due <= m.due
           /\ now < t.due
           /\ now' = t.due
    /\ UNCHANGED <<variant, rateLimitMap, activeDownloads, metadataCache,
                   reqs, procs, metaProcs, timers, crashed, clients,
                   metaTimers, searches>>

(***************************************************************************)
(* WebSocket connections, lines 102-108, and the peer of a /download       *)
(* request going away.  The server registers no handler that acts on       *)
(* either: ws.on('close') only logs, and nothing listens for 'close' on    *)
(* req or res.                                                             *)
(***************************************************************************)
\* wss.on('connection'): a new socket, OPEN, with nothing sent to it yet
WsConnect(c) ==
    /\ ~crashed /\ ~Urgent
    /\ clients[c].readyState = 0
    /\ clients' = [clients EXCEPT ![c] = [readyState |-> 1, inbox |-> <<>>]]
    /\ UNCHANGED <<variant, now, rateLimitMap, activeDownloads, metadataCache,
                   reqs, procs, metaProcs, timers, crashed, metaTimers,
                   searches>>

\* the closing handshake has begun: the socket is CLOSING, still in
\* wss.clients
WsClosing(c) ==
    /\ ~crashed /\ ~Urgent
    /\ clients[c].readyState = 1
    /\ clients' = [clients EXCEPT ![c].readyState = 2]
    /\ UNCHANGED <<variant, now, rateLimitMap, activeDownloads, metadataCache,
                   reqs, procs, metaProcs, timers, crashed, metaTimers,
                   searches>>

\* ws.on('close'): the socket is CLOSED and leaves wss.clients
WsClosed(c) ==
    /\ ~crashed /\ ~Urgent
    /\ clients[c].readyState \in {1, 2}
    /\ clients' = [clients EXCEPT ![c].readyState = 3]
    /\ UNCHANGED <<variant, now, rateLimitMap, activeDownloads, metadataCache,
                   reqs, procs, metaProcs, timers, crashed, metaTimers,
                   searches>>

\* mutant: a 'close' handler on the response removes the download entry
HttpDropCleanup(r) ==
    /\ ~crashed /\ ~Urgent
    /\ ~reqs[r].res.ended /\ ~reqs[r].res.dropped
    /\ reqs' = [reqs EXCEPT ![r].res.dropped = TRUE]
    /\ activeDownloads' = [activeDownloads EXCEPT ![reqs[r].id] = NoEntry]
    /\ UNCHANGED <<variant, now, rateLimitMap, metadataCache,
                   procs, metaProcs, timers, crashed, clients, metaTimers,
                   searches>>

\* the peer of request r closes its HTTP connection before the response
\* has ended: the response is destroyed, nothing else happens
HttpDrop(r) ==
    /\ ~crashed /\ ~Urgent
    /\ ~reqs[r].res.ended /\ ~reqs[r].res.dropped
    /\ reqs' = [reqs EXCEPT ![r].res.dropped = TRUE]
    /\ UNCHANGED <<variant, now, rateLimitMap, activeDownloads, metadataCache,
                   procs, metaProcs, timers, crashed, clients, metaTimers,
                   searches>>

(***************************************************************************)
(* The metadata subprocess, lines 518-532 and 835-857: its stdout is       *)
(* collected in `metadata`, and on 'close' the text is trimmed, split on   *)
(* "|||" and stored with a one-hour expiry.  No 'error' handler is         *)
(* registered on it.                                                       *)
(***************************************************************************)
MetaOutputs == {"", " ", "Song|||215|||Artist ", "Song|||NA|||Artist "}
MetaExitCodes == {0, 1}

\* metadata.trim()
trim(text) ==
    IF text = "Song|||215|||Artist " THEN "Song|||215|||Artist"
    ELSE IF text = "Song|||NA|||Artist " THEN "Song|||NA|||Artist"
    ELSE ""

\* text.split("|||")
split(text) ==
    IF text = "Song|||215|||Artist" THEN <<"Song", "215", "Artist">>
    ELSE IF text = "Song|||NA|||Artist" THEN <<"Song", "NA", "Artist">>
    ELSE <<text>>

\* parseInt(duration) || 0
parseIntOr0(digits) == IF digits = "215" THEN 215 ELSE 0

\* mutant: the exit code is not looked at
metaOkAnyCode(code, out) == trim(out) # ""

\* code === 0 && metadata.trim()
metaOk(code, out) == code = 0 /\ trim(out) # ""

\* metadataProcess.on("close", ...)
MetaClose(m, code, out) ==
    /\ ~crashed /\ ~Urgent
    /\ metaProcs[m].st = "running"
    /\ LET id == metaProcs[m].id
           fields == split(trim(out))
       IN IF metaOk(code, out)
          THEN /\ metadataCache' = [metadataCache EXCEPT ![id] =
                      [title |-> fields[1],
                       duration |-> parseIntOr0(fields[2]),
                       uploader |-> fields[3]]]
               /\ metaTimers' = metaTimers \cup
                      {[id |-> id, due |-> now + METADATA_TTL, by |-> m]}
               /\ metaProcs' = [metaProcs EXCEPT ![m].st = "closed",
                                    ![m].code = code, ![m].out = out,
                                    ![m].storedAt = now]
          ELSE /\ metaProcs' = [metaProcs EXCEPT ![m].st = "closed",
                                    ![m].code = code, ![m].out = out]
               /\ UNCHANGED <<metadataCache, metaTimers>>
    /\ UNCHANGED <<variant, now, rateLimitMap, activeDownloads, reqs, procs,
                   timers, crashed, clients, searches>>

\* the metadata subprocess could not be spawned: 'error' has no listener
MetaError(m) ==
    /\ ~crashed /\ ~Urgent
    /\ metaProcs[m].st = "running"
    /\ metaProcs' = [metaProcs EXCEPT ![m].st = "errored"]
    /\ crashed' = TRUE
    /\ UNCHANGED <<variant, now, rateLimitMap, activeDownloads, metadataCache,
                   reqs, procs, timers, clients, metaTimers, searches>>

\* setTimeout(() => metadataCache.delete(id), 3600000)
MetaExpire(t) ==
    /\ ~crashed /\ ~Urgent
    /\ t \in metaTimers /\ now >= t.due
    /\ metaTimers' = metaTimers \ {t}
    /\ metadataCache' = [metadataCache EXCEPT ![t.id] = NoMeta]
    /\ UNCHANGED <<variant, now, rateLimitMap, activeDownloads, reqs, procs,
                   metaProcs, timers, crashed, clients, searches>>

(***************************************************************************)
(* app.get("/search"), lines 128-147.  req.query.q is undefined when the   *)
(* parameter is absent, else a string; YouTube.search resolves to a list   *)
(* of videos or rejects.                                                   *)
(***************************************************************************)
NoQuery == "<undefined>"
Queries == {NoQuery, "", "lofi"}

Video(id, ms) == [id |-> id, title |-> "t", duration |-> ms]
ProviderResults == {<<>>, <<Video("v1", 215999)>>,
                    <<Video("v1", 215999), Video("v2", 1000)>>}

\* mutant: only an absent parameter counts as no query
notQueryAbsentOnly(q) == q = NoQuery

\* !q
notQuery(q) == q \in {NoQuery, ""}

\* results.map(v => ({ id, title, duration: Math.floor(v.duration / 1000) }))
simplified(results) ==
    [i \in 1..Len(results) |->
        [results[i] EXCEPT !.duration = results[i].duration \div 1000]]

\* the request is answered; invoked tells whether YouTube.search was called
Search(q) ==
    /\ ~crashed /\ ~Urgent
    /\ IF notQuery(q)
       THEN searches' = Append(searches,
                [q |-> q, invoked |-> FALSE, status |-> 200,
                 results |-> <<>>, error |-> ""])
       ELSE \/ \E found \in ProviderResults :
                  searches' = Append(searches,
                      [q |-> q, invoked |-> TRUE, status |-> 200,
                       results |-> simplified(found), error |-> ""])
            \/ searches' = Append(searches,
                   [q |-> q, invoked |-> TRUE, status |-> 500,
                    results |-> <<>>, error |-> "search_failed"])
    /\ UNCHANGED <<variant, now, rateLimitMap, activeDownloads, metadataCache,
                   reqs, procs, metaProcs, timers, crashed, clients,
                   metaTimers>>

(***************************************************************************)
(* Spec: the download orchestration of all three variants.  Time is not    *)
(* followed: a pending retry callback may run at any moment.               *)
(***************************************************************************)
RECURSIVE SumOver(_, _, _)
SumOver(ps, field, n) ==
    IF n = 0 THEN 0
    ELSE (IF field = "nout" THEN ps[n].nout ELSE ps[n].nerr)
         + SumOver(ps, field, n - 1)

TotalStdout == SumOver(procs, "nout", Len(procs))
TotalStderr == SumOver(procs, "nerr", Len(procs))
Pids == 1..Len(procs)

\* the requests and stderr chunks Spec draws
SpecIPs == {"ip1"}
SpecIds == {NoId, "v1"}
SpecChunks == {LinePercent, LineBot, LinePlain}

Next ==
    \/ \E ip \in SpecIPs, id \in SpecIds :
           Len(reqs) < MaxReq /\ Len(procs) < MaxProcs /\ Download(ip, id)
    \/ \E p \in Pids : TotalStdout < MaxStdout /\ StdoutData(p)
    \/ \E p \in Pids, chunk \in SpecChunks :
           TotalStderr < MaxStderr /\ StderrData(p, chunk)
    \/ \E p \in Pids : StdoutEnd(p)
    \/ \E p \in Pids, code \in ExitCodes \cup {SpawnErrCode} : Close(p, code)
    \/ \E p \in Pids : Error(p)
    \/ \E t \in timers : Len(procs) < MaxProcs /\ RetryTimer(t)

Spec == Init /\ [][Next]_vars

(***************************************************************************)
(* SpecWs: the download orchestration with WebSocket peers coming and      *)
(* going.                                                                  *)
(***************************************************************************)
MaxWsLoad == 2     \* subprocesses plus output chunks per behaviour of SpecWs

WsIds == {"v1"}
WsChunks == {LinePercent, LineBot, LineExtract}

\* the subprocesses spawned and the chunks they have emitted so far
WsLoad == Len(procs) + TotalStdout + TotalStderr

NextWs ==
    \/ \E id \in WsIds :
           Len(reqs) < MaxWsLoad /\ WsLoad < MaxWsLoad /\ Download("ip1", id)
    \/ \E p \in Pids : WsLoad < MaxWsLoad /\ StdoutData(p)
    \/ \E p \in Pids, chunk \in WsChunks :
           WsLoad < MaxWsLoad /\ StderrData(p, chunk)
    \/ \E p \in Pids : StdoutEnd(p)
    \/ \E p \in Pids, code \in ExitCodes \cup {SpawnErrCode} : Close(p, code)
    \/ \E p \in Pids : Error(p)
    \/ \E t \in timers : WsLoad < MaxWsLoad /\ RetryTimer(t)
    \/ \E c \in Clients : WsConnect(c)
    \/ \E c \in Clients : WsClosing(c)
    \/ \E c \in Clients : WsClosed(c)

SpecWs == Init /\ [][NextWs]_vars

(***************************************************************************)
(* SpecDrop: the download orchestration with the peers of a download going *)
(* away: the HTTP connection of the request, and one WebSocket.            *)
(***************************************************************************)
MaxDropLoad == 2   \* subprocesses plus output chunks per behaviour of SpecDrop

DropClients == {"c1"}

NextDrop ==
    \/ \E id \in WsIds :
           Len(reqs) < MaxDropLoad /\ WsLoad < MaxDropLoad /\ Download("ip1", id)
    \/ \E p \in Pids : WsLoad < MaxDropLoad /\ StdoutData(p)
    \/ \E p \in Pids, chunk \in WsChunks :
           WsLoad < MaxDropLoad /\ StderrData(p, chunk)
    \/ \E p \in Pids : StdoutEnd(p)
    \/ \E p \in Pids, code \in ExitCodes \cup {SpawnErrCode} : Close(p, code)
    \/ \E p \in Pids : Error(p)
    \/ \E t \in timers : WsLoad < MaxDropLoad /\ RetryTimer(t)
    \/ \E c \in DropClients : WsConnect(c)
    \/ \E c \in DropClients : WsClosing(c)
    \/ \E c \in DropClients : WsClosed(c)
    \/ \E r \in 1..Len(reqs) : HttpDrop(r)

SpecDrop == Init /\ [][NextDrop]_vars

(***************************************************************************)
(* SpecPair: requests for one id in flight together, with retries and the   *)
(* output of subprocesses that nothing listens to.                         *)
(***************************************************************************)
MaxPairLoad == 4   \* subprocesses plus output chunks per behaviour of SpecPair

NextPair ==
    \/ \E id \in WsIds :
           Len(reqs) < MaxPairLoad /\ WsLoad < MaxPairLoad /\ Download("ip1", id)
    \/ \E p \in Pids : WsLoad < MaxPairLoad /\ StdoutData(p)
    \/ \E p \in Pids : WsLoad < MaxPairLoad /\ StdoutUnread(p)
    \/ \E p \in Pids, chunk \in WsChunks :
           WsLoad < MaxPairLoad /\ StderrData(p, chunk)
    \/ \E p \in Pids : StdoutEnd(p)
    \/ \E p \in Pids, code \in ExitCodes \cup {SpawnErrCode} : Close(p, code)
    \/ \E p \in Pids : Error(p)
    \/ \E t \in timers : WsLoad < MaxPairLoad /\ RetryTimer(t)

SpecPair == Init /\ [][NextPair]_vars

(***************************************************************************)
(* SpecRetry: the download orchestration under a clock that follows the    *)
(* retry timers.                                                           *)
(***************************************************************************)
MaxRetryLoad == 3  \* subprocesses plus output chunks per behaviour of SpecRetry

NextRetry ==
    \/ \E id \in WsIds :
           Len(reqs) < MaxRetryLoad /\ WsLoad < MaxRetryLoad /\ Download("ip1", id)
    \/ \E p \in Pids : WsLoad < MaxRetryLoad /\ StdoutData(p)
    \/ \E p \in Pids, chunk \in WsChunks :
           WsLoad < MaxRetryLoad /\ StderrData(p, chunk)
    \/ \E p \in Pids : StdoutEnd(p)
    \/ \E p \in Pids, code \in ExitCodes \cup {SpawnErrCode} : Close(p, code)
    \/ \E p \in Pids : Error(p)
    \/ \E t \in timers :
           WsLoad < MaxRetryLoad /\ timerDue(t) /\ RetryTimer(t)
    \/ Elapse

SpecRetry == Init /\ [][NextRetry]_vars

(***************************************************************************)
(* SpecMeta: the metadata cache under a running clock.  Extraction         *)
(* subprocesses are spawned by accepted requests and make no progress.     *)
(***************************************************************************)
MaxMetaReq == 2        \* requests per behaviour of SpecMeta
MaxMetaClock == 7200000 \* last clock reading of SpecMeta, ms

MetaTickSteps == {1800000}
MetaMs == 1..Len(metaProcs)

NextMeta ==
    \/ \E id \in WsIds : Len(reqs) < MaxMetaReq /\ Download("ip1", id)
    \/ \E d \in MetaTickSteps : now + d <= MaxMetaClock /\ Tick(d)
    \/ \E m \in MetaMs, code \in MetaExitCodes, out \in MetaOutputs :
           MetaClose(m, code, out)
    \/ \E m \in MetaMs : MetaError(m)
    \/ \E t \in metaTimers : MetaExpire(t)

SpecMeta == Init /\ [][NextMeta]_vars

(***************************************************************************)
(* SpecClassify: the stderr handlers on chunks with any combination of the *)
(* phase markers.                                                          *)
(***************************************************************************)
MaxClassifyLoad == 2   \* subprocesses plus chunks per behaviour of SpecClassify

Markers == {"Extracting URL", "Downloading webpage", "Downloading android",
            "player API", "Downloading m3u8", "information", "[download]",
            "%"}

\* the regex can match only a chunk that holds "[download]" and "%"
ClassifyChunks ==
    {[marks |-> m, pct |-> NoPct] : m \in SUBSET Markers}
    \cup {[marks |-> m \cup {"[download]", "%"}, pct |-> 425] :
              m \in SUBSET Markers}

NextClassify ==
    \/ \E id \in WsIds :
           Len(reqs) < MaxClassifyLoad /\ WsLoad < MaxClassifyLoad
           /\ Download("ip1", id)
    \/ \E p \in Pids, chunk \in ClassifyChunks :
           WsLoad < MaxClassifyLoad /\ StderrData(p, chunk)
    \/ \E p \in Pids : StdoutEnd(p)
    \/ \E p \in Pids, code \in ExitCodes : Close(p, code)

SpecClassify == Init /\ [][NextClassify]_vars

(***************************************************************************)
(* SpecLive: the download orchestration with progress guaranteed.  Every   *)
(* subprocess is spawned and terminates (taken as given for yt-dlp), a     *)
(* piped stdout reaches EOF before that, and the event loop runs every     *)
(* setTimeout callback.  No bound keeps a retry from being started.        *)
(***************************************************************************)
MaxLiveReq == 1     \* requests per behaviour of SpecLive
MaxLiveChunks == 2  \* output chunks per behaviour of SpecLive

LiveReqs == 1..MaxLiveReq
LivePids == 1..(maxAttempts * MaxLiveReq)
LiveChunks == TotalStdout + TotalStderr

NextLive ==
    \/ \E id \in WsIds : Len(reqs) < MaxLiveReq /\ Download("ip1", id)
    \/ \E p \in Pids : LiveChunks < MaxLiveChunks /\ StdoutData(p)
    \/ \E p \in Pids : LiveChunks < MaxLiveChunks /\ StdoutUnread(p)
    \/ \E p \in Pids, chunk \in WsChunks :
           LiveChunks < MaxLiveChunks /\ StderrData(p, chunk)
    \/ \E p \in Pids : StdoutEnd(p)
    \/ \E p \in Pids, code \in ExitCodes \cup {SpawnErrCode} : Close(p, code)
    \/ \E t \in timers : RetryTimer(t)

LiveFairness ==
    /\ \A p \in LivePids :
           WF_vars(p \in Pids /\ StdoutEnd(p))
    /\ \A p \in LivePids :
           WF_vars(p \in Pids
                   /\ \E code \in ExitCodes \cup {SpawnErrCode} : Close(p, code))
    /\ WF_vars(\E t \in timers : RetryTimer(t))

SpecLive == Init /\ [][NextLive]_vars /\ LiveFairness

(***************************************************************************)
(* SpecSearch: /search requests.                                           *)
(***************************************************************************)
MaxSearch == 3     \* /search requests per behaviour of SpecSearch

NextSearch == \E q \in Queries : Len(searches) < MaxSearch /\ Search(q)

SpecSearch == Init /\ [][NextSearch]_vars

(***************************************************************************)
(* SpecRate: the request gate under a running clock.  Subprocesses are     *)
(* spawned by accepted requests and make no progress.                      *)
(***************************************************************************)
RateIds == {NoId, "v1"}

NextRate ==
    \/ \E ip \in IPs, id \in RateIds :
           Len(reqs) < MaxRateReq /\ Download(ip, id)
    \/ \E d \in TickSteps : now + d <= MaxClock /\ Tick(d)

SpecRate == Init /\ [][NextRate]_vars

(***************************************************************************)
(* Properties.                                                             *)
(***************************************************************************)
Reqs == 1..Len(reqs)
Rejected(q) == reqs[q].res.status = 429
Accepted(q) == reqs[q].id # NoId /\ ~Rejected(q)

\* the accepted requests before r from r's IP that are less than 60 s old
\* when r arrives
InWindow(r) ==
    {q \in 1..(r - 1) : /\ reqs[q].ip = reqs[r].ip
                        /\ Accepted(q)
                        /\ reqs[r].t - reqs[q].t < 60000}

\* C1: in the variants with a rate limiter, a request with an id is answered
\* 429 exactly when 3 requests of its IP were accepted in the 60 seconds
\* before it; once fewer than 3 remain in the window it is accepted.
C1_RateLimitWindow ==
    HasRateLimit =>
        \A r \in Reqs : reqs[r].id # NoId =>
            /\ Cardinality(InWindow(r)) >= 3 => Rejected(r)
            /\ Cardinality(InWindow(r)) < 3 => Accepted(r)

C1_Witness ==
    /\ HasRateLimit
    /\ \E r \in Reqs : Rejected(r) /\ Cardinality(InWindow(r)) = 3
                       /\ \E q \in InWindow(r) : reqs[q].t < reqs[r].t

\* the step is the handling of a new /download request
NewRequest == Len(reqs') = Len(reqs) + 1

\* C9: a /download request without an id spawns no subprocess and leaves
\* the active downloads, the rate-limit windows and the metadata cache as
\* they were.
C9_NoIdFrame ==
    [][(NewRequest /\ reqs'[Len(reqs')].id = NoId) =>
           /\ procs' = procs /\ metaProcs' = metaProcs /\ timers' = timers
           /\ activeDownloads' = activeDownloads
           /\ rateLimitMap' = rateLimitMap
           /\ metadataCache' = metadataCache]_vars

C9_Witness ==
    /\ HasRateLimit
    /\ \E r \in Reqs : /\ r > 1 /\ reqs[r].id = NoId
                       /\ Accepted(r - 1) /\ reqs[r - 1].ip = reqs[r].ip
                       /\ Len(rateLimitMap[reqs[r].ip]) = 1

\* C10: a request the rate limiter rejects is answered 429 with
\* retryAfter 60, and spawns neither an extraction nor a metadata
\* subprocess nor creates a download entry.
C10_RejectedNoSpawn ==
    [][LET q == reqs'[Len(reqs')]
       IN (NewRequest
           /\ (q.res.status = 429
               \/ (q.id # NoId /\ HasRateLimit /\ ~checkRateLimit(q.ip)))) =>
              /\ q.res.status = 429 /\ q.res.ended
              /\ q.res.payload.retryAfter = 60
              /\ procs' = procs /\ metaProcs' = metaProcs
              /\ activeDownloads' = activeDownloads]_vars

C10_Witness ==
    /\ variant = "limited"
    /\ \E r \in Reqs : Rejected(r) /\ reqs[r].res.payload.retryAfter = 60
    /\ Len(procs) = 3 /\ Len(metaProcs) = 3

(***************************************************************************)
(* Properties of the download orchestration.                               *)
(***************************************************************************)
ProcsOf(r) == {p \in Pids : procs[p].req = r}

\* nothing of request r is running or scheduled any more
Quiescent(r) ==
    /\ \A p \in ProcsOf(r) : procs[p].st = "closed"
    /\ \A t \in timers : t.req # r

HasEvent(r, type) ==
    \E i \in 1..Len(reqs[r].events) :
        reqs[r].events[i].type = type /\ reqs[r].events[i].id = reqs[r].id

BotText(p) ==
    "Sign in to confirm" \in procs[p].errorOutput \/ "bot" \in procs[p].errorOutput

\* the chunks of subprocess p that reached the response, in order
Written(p) ==
    SelectSeq(reqs[procs[p].req].res.body, LAMBDA c : c[1] = p)

\* C2: once a subprocess that emitted stdout data has exited with code 0
\* and nothing of its request is left to run, the response has been ended
\* without an error status and a complete event for the id was broadcast.
C2_CompletesOnSuccess ==
    \A p \in Pids :
        LET r == procs[p].req IN
        (procs[p].st = "closed" /\ procs[p].code = 0 /\ procs[p].nout >= 1
         /\ Quiescent(r) /\ ~crashed) =>
            /\ reqs[r].res.ended
            /\ reqs[r].res.status < 400
            /\ HasEvent(r, "complete")

\* C3: for a subprocess that exited with code 0, the response holds exactly
\* the chunks it emitted on stdout, in emission order.
C3_StreamExact ==
    \A p \in Pids :
        (procs[p].st = "closed" /\ procs[p].code = 0) =>
            Written(p) = [k \in 1..procs[p].nout |-> <<p, k>>]

\* the request has given up: an error event, a 500 or a rejected promise
GaveUp(r) ==
    \/ HasEvent(r, "error")
    \/ reqs[r].res.status = 500
    \/ reqs[r].promise = "rejected"

ExpectedPair(attempt) ==
    IF attempt = 1 THEN <<"android,web", "Android 10; SM-G973F">>
    ELSE IF attempt = 2 THEN <<"ios,web", "iPhone; CPU iPhone OS 15_0">>
    ELSE <<"web", "Windows NT 10.0; Win64; x64">>

\* C4: in the retrying variant, when attempt 1 exited with code 1 and bot
\* text on stderr, attempt 2 is scheduled or started, and has been started
\* by the time the request gives up; no attempt beyond 3 exists; and the
\* attempts of the request use pairwise different player-client/user-agent
\* pairs, those of the table.
C4_BotRetry ==
    variant = "retrying" =>
        \A r \in Reqs :
            (\E p \in ProcsOf(r) : /\ procs[p].attempt = 1
                                   /\ procs[p].st = "closed"
                                   /\ procs[p].code = 1 /\ BotText(p)) =>
                /\ \/ \E t \in timers : t.req = r /\ t.attempt = 2
                   \/ \E q \in ProcsOf(r) : procs[q].attempt = 2
                /\ GaveUp(r) => \E q \in ProcsOf(r) : procs[q].attempt >= 2
                /\ \A q \in ProcsOf(r) : procs[q].attempt <= 3
                /\ \A q \in ProcsOf(r) :
                       <<procs[q].args.client, procs[q].args.ua>>
                           = ExpectedPair(procs[q].attempt)
                /\ \A p, q \in ProcsOf(r) :
                       p # q => <<procs[p].args.client, procs[p].args.ua>>
                                    # <<procs[q].args.client, procs[q].args.ua>>

C4_Witness ==
    /\ variant = "retrying"
    /\ \E r \in Reqs :
           /\ \E p \in ProcsOf(r) : /\ procs[p].attempt = 1
                                    /\ procs[p].code = 1 /\ BotText(p)
           /\ Cardinality(ProcsOf(r)) = 3
           /\ Quiescent(r) /\ HasEvent(r, "error")

\* C5: in the retrying variant a request never has more than 3 extraction
\* subprocesses, whatever their outcomes.
C5_AtMostThreeSpawns ==
    variant = "retrying" => \A r \in Reqs : Cardinality(ProcsOf(r)) <= 3

C5_Witness ==
    /\ variant = "retrying"
    /\ \E r \in Reqs :
           /\ Cardinality(ProcsOf(r)) = 3
           /\ Quiescent(r)
           /\ \E p \in ProcsOf(r) : procs[p].code = SpawnErrCode
           /\ \E p \in ProcsOf(r) : procs[p].code = 1

\* the step runs the 'close' handler of subprocess p in the retrying variant
CloseStep(p) ==
    /\ variant = "retrying" /\ procs[p].listeners
    /\ procs[p].st # "closed" /\ procs'[p].st = "closed"

RetryStarted(p) == \E t \in timers' \ timers : t.by = p

\* C6 as stated: a retry follows an exit only when the exit code is
\* non-zero and stderr has a bot marker or the code is 1.
C6_RetryOnlyNonZero ==
    [][\A p \in Pids :
           (CloseStep(p) /\ RetryStarted(p)) =>
               /\ procs'[p].code # 0
               /\ (BotText(p) \/ procs'[p].code = 1)]_vars

\* C6 amended: a retry follows an exit only when the exit is not a success
\* (the code is non-zero, or no stdout data was received) and stderr has a
\* bot marker or the code is 1; every other failed exit is terminal: an
\* error event, no timer, no further subprocess.
C6_RetryOnlyOnFailure ==
    [][\A p \in Pids :
           CloseStep(p) =>
               LET code == procs'[p].code
                   failed == ~(code = 0 /\ procs[p].hasData)
                   r == procs[p].req
               IN /\ RetryStarted(p) => failed /\ (BotText(p) \/ code = 1)
                  /\ (failed /\ ~(BotText(p) \/ code = 1)) =>
                         /\ timers' = timers
                         /\ Len(procs') = Len(procs)
                         /\ Len(reqs'[r].events) = Len(reqs[r].events) + 1
                         /\ reqs'[r].events[Len(reqs'[r].events)].type = "error"]_vars

C6_Witness ==
    /\ variant = "retrying"
    /\ \E p \in Pids :
           /\ procs[p].st = "closed" /\ procs[p].code = 0 /\ ~procs[p].hasData
           /\ \E q \in ProcsOf(procs[p].req) :
                  procs[q].attempt = procs[p].attempt + 1

\* the last subprocess of r ended with a non-zero code (a failed spawn
\* included) and nothing of r is left to run
TerminalFailure(r) ==
    /\ ProcsOf(r) # {}
    /\ Quiescent(r)
    /\ \A p \in ProcsOf(r) :
           (\A q \in ProcsOf(r) : q <= p) => procs[p].code # 0

\* C7: a download that failed for good without a byte written to the
\* response is answered 500; in the retrying variant with a JSON payload
\* that has an error code and the attempt count.
C7_Failure500 ==
    \A r \in Reqs :
        (TerminalFailure(r) /\ reqs[r].res.body = <<>> /\ ~crashed) =>
            /\ reqs[r].res.status = 500
            /\ variant = "retrying" =>
                   /\ reqs[r].res.payload.kind = "json"
                   /\ reqs[r].res.payload.error # ""
                   /\ reqs[r].res.payload.attempts > 0

SpawnFailed(p) ==
    \/ procs[p].st = "errored"
    \/ procs[p].st = "closed" /\ procs[p].code = SpawnErrCode

\* C8: in the retrying variant a failed spawn of attempt n < 3 schedules or
\* starts attempt n + 1; a failed spawn of attempt 3 starts nothing more
\* and the request ends as a failure.
C8_SpawnErrorRetries ==
    variant = "retrying" =>
        \A p \in Pids :
            SpawnFailed(p) =>
                LET r == procs[p].req
                    n == procs[p].attempt
                IN IF n < 3
                   THEN \/ \E t \in timers : t.req = r /\ t.attempt = n + 1
                        \/ \E q \in ProcsOf(r) : procs[q].attempt = n + 1
                   ELSE /\ \A t \in timers : t.req # r
                        /\ \A q \in ProcsOf(r) : procs[q].attempt <= 3
                        /\ reqs[r].res.status = 500

(***************************************************************************)
(* Properties of the WebSocket fan-out.                                    *)
(***************************************************************************)
\* the events the handlers of request r broadcast in this step
NewEvents(r) ==
    SubSeq(reqs'[r].events, Len(reqs[r].events) + 1, Len(reqs'[r].events))

Open(c) == clients[c].readyState = 1

\* C11: every event a handler broadcasts, for whichever request, is sent in
\* that step to every socket that is open at that moment: the socket's
\* messages grow by exactly the events of the step, in order.
C11_FanOut ==
    [][\A r \in Reqs, c \in Clients :
           (Open(c) /\ NewEvents(r) # <<>>) =>
               clients'[c].inbox = clients[c].inbox \o NewEvents(r)]_vars

\* two sockets open throughout a download hold every event of it
C11_Witness ==
    /\ Len(reqs) = 1
    /\ Len(reqs[1].events) >= 2
    /\ HasEvent(1, "complete") \/ HasEvent(1, "error")
    /\ \A c \in Clients : Open(c) /\ clients[c].inbox = reqs[1].events

\* C12: a socket that is not open is sent nothing; a socket that connects
\* starts with no message, whatever was broadcast before; and an open
\* socket is sent nothing but the events of the step.
C12_OpenOnly ==
    [][\A c \in Clients :
           /\ (~Open(c) /\ clients'[c].readyState # 1) =>
                  clients'[c].inbox = clients[c].inbox
           /\ (~Open(c) /\ clients'[c].readyState = 1) =>
                  clients[c].readyState = 0 /\ clients'[c].inbox = <<>>
           /\ (Open(c) /\ \A r \in Reqs : NewEvents(r) = <<>>) =>
                  clients'[c].inbox = clients[c].inbox]_vars

\* one socket was closing when the second event went out, the other
\* connected after the first one
C12_Witness ==
    /\ Len(reqs) = 1
    /\ Len(reqs[1].events) = 2
    /\ clients["c1"].readyState = 2
    /\ clients["c1"].inbox = <<reqs[1].events[1]>>
    /\ clients["c2"].readyState = 1
    /\ clients["c2"].inbox = <<reqs[1].events[2]>>

(***************************************************************************)
(* Properties of the stderr handlers.                                      *)
(***************************************************************************)
LastEvent(r) == reqs'[r].events[Len(reqs'[r].events)]

\* C13: a stderr chunk "[download]  42.5%" with none of the earlier markers
\* is classified downloading, step 5, and its handler broadcasts one
\* progress event for the id with the percentage 42.5 and records 42.5 as
\* the progress of the id's download entry, when there is one.
C13_PercentLine ==
    [][\A p \in Pids :
           StderrData(p, LinePercent) =>
               LET r == procs[p].req
                   id == procs[p].id
               IN /\ classify(LinePercent).phase = "downloading"
                  /\ classify(LinePercent).step = 5
                  /\ Len(NewEvents(r)) = 1
                  /\ LastEvent(r).type = "progress"
                  /\ LastEvent(r).id = id
                  /\ LastEvent(r).percent = 425
                  /\ activeDownloads[id] # NoEntry =>
                         activeDownloads'[id].progress = 425]_vars

(***************************************************************************)
(* Properties of /search.                                                  *)
(***************************************************************************)
\* C14: a /search request whose query is absent or empty is answered with
\* the empty list, and the search provider is not called for it.
C14_EmptyQuery ==
    \A i \in 1..Len(searches) :
        searches[i].q \in {NoQuery, ""} =>
            /\ ~searches[i].invoked
            /\ searches[i].status = 200
            /\ searches[i].results = <<>>

C14_Witness ==
    /\ \E i \in 1..Len(searches) : searches[i].q = NoQuery
    /\ \E i \in 1..Len(searches) : searches[i].q = ""
    /\ \E i \in 1..Len(searches) :
           searches[i].invoked /\ Len(searches[i].results) = 2

(***************************************************************************)
(* Properties of the active-downloads map.                                 *)
(***************************************************************************)
\* every subprocess spawned for id has terminated and no retry for id is
\* pending
Settled(id) ==
    /\ \E p \in Pids : procs[p].id = id
    /\ \A p \in Pids : procs[p].id = id => procs[p].st = "closed"
    /\ \A t \in timers : reqs[t.req].id # id

\* C15: once every extraction subprocess spawned for an id has terminated
\* and no retry for the id is pending, the active-downloads map has no
\* entry for the id.
C15_EntryRemoved ==
    \A id \in Ids : (Settled(id) /\ ~crashed) => activeDownloads[id] = NoEntry

(***************************************************************************)
(* Properties of the metadata cache.                                       *)
(***************************************************************************)
\* a metadata subprocess stored an entry for id less than an hour ago
StoredWithinTtl(id) ==
    \E m \in MetaMs : /\ metaProcs[m].id = id
                       /\ metaProcs[m].storedAt # NoPct
                       /\ now < metaProcs[m].storedAt + METADATA_TTL

\* C16: an entry stored in the metadata cache stays for one hour from the
\* moment it was stored and is gone once that hour has elapsed: apart from
\* the instant at which an expiry is due, the cache holds an entry for an
\* id exactly when one was stored for it less than an hour ago.
C16_OneHourExpiry ==
    \A id \in Ids :
        (\A t \in metaTimers : now < t.due) =>
            (metadataCache[id] # NoMeta <=> StoredWithinTtl(id))

\* the metadata subprocess spawned in this step, if any
MetaSpawned == Len(metaProcs') = Len(metaProcs) + 1

\* C17: a metadata subprocess is spawned only by an accepted download
\* request of a piping variant, for the requested id, and only when the
\* cache holds no entry for that id at that moment.
C17_PrefetchOnlyUncached ==
    [][/\ Len(metaProcs') >= Len(metaProcs)
       /\ Len(metaProcs') <= Len(metaProcs) + 1
       /\ MetaSpawned =>
              LET m == metaProcs'[Len(metaProcs')]
              IN /\ NewRequest
                 /\ variant # "retrying"
                 /\ m.req = Len(reqs') /\ m.id = reqs'[m.req].id
                 /\ reqs'[m.req].res.status # 429
                 /\ metadataCache[m.id] = NoMeta]_vars

\* a request was accepted while the entry of its id was cached, and no
\* metadata subprocess was spawned for it
C17_Witness ==
    /\ variant # "retrying"
    /\ \E r \in Reqs :
           /\ Accepted(r)
           /\ \A m \in MetaMs : metaProcs[m].req # r
           /\ \E m \in MetaMs : /\ metaProcs[m].id = reqs[r].id
                                  /\ metaProcs[m].storedAt # NoPct
                                  /\ metaProcs[m].storedAt <= reqs[r].t
                                  /\ reqs[r].t < metaProcs[m].storedAt
                                                     + METADATA_TTL
           /\ \E p \in ProcsOf(r) : procs[p].st = "running"

\* the step is the 'close' of metadata subprocess m
MetaCloseStep(m) ==
    metaProcs[m].st = "running" /\ metaProcs'[m].st = "closed"

\* C18: the 'close' of a metadata subprocess with a non-zero code, or with
\* code 0 and blank output, changes neither the cache nor the expiry
\* timers, nor any response, broadcast event or socket.
C18_SilentFailure ==
    [][\A m \in MetaMs :
           (MetaCloseStep(m)
            /\ (metaProcs'[m].code # 0 \/ metaProcs'[m].out \in {"", " "})) =>
               /\ metadataCache' = metadataCache
               /\ metaTimers' = metaTimers
               /\ reqs' = reqs
               /\ clients' = clients
               /\ procs' = procs /\ activeDownloads' = activeDownloads
               /\ crashed' = crashed]_vars

C18_Witness ==
    /\ \E m \in MetaMs : /\ metaProcs[m].st = "closed"
                           /\ metaProcs[m].code = 0 /\ metaProcs[m].out = " "
    /\ \E m \in MetaMs : /\ metaProcs[m].st = "closed"
                           /\ metaProcs[m].code = 1
                           /\ metaProcs[m].out = "Song|||215|||Artist "
    /\ \A id \in Ids : metadataCache[id] = NoMeta
    /\ metaTimers = {}

(***************************************************************************)
(* Properties of peers going away.                                         *)
(***************************************************************************)
\* in this step the peer of a request drops its HTTP connection, or a
\* WebSocket starts closing or is closed
PeerLeaves ==
    \/ \E r \in Reqs : ~reqs[r].res.dropped /\ reqs'[r].res.dropped
    \/ \E c \in Clients : /\ clients[c].readyState \in {1, 2}
                            /\ clients'[c].readyState \in {2, 3}
                            /\ clients'[c].readyState # clients[c].readyState

\* C19: a peer dropping its HTTP connection or its WebSocket changes no
\* subprocess, no download entry and no retry timer; a subprocess leaves
\* the running state, and an entry leaves the map, only in a step in which
\* a subprocess of that id reports its own 'close' or 'error'.
C19_NoCancelOnDisconnect ==
    [][/\ PeerLeaves =>
              /\ procs' = procs
              /\ activeDownloads' = activeDownloads
              /\ timers' = timers
       /\ \A id \in Ids :
              (activeDownloads[id] # NoEntry /\ activeDownloads'[id] = NoEntry) =>
                  \E p \in Pids : /\ procs[p].id = id
                                   /\ procs[p].st = "running"
                                   /\ procs'[p].st \in {"closed", "errored"}]_vars

\* the HTTP peer left before any byte was written and the WebSocket was
\* closed, and the subprocess went on to emit data and to exit with code 0
C19_Witness ==
    /\ variant # "retrying"
    /\ clients["c1"].readyState = 3
    /\ \E r \in Reqs :
           /\ reqs[r].res.dropped /\ reqs[r].res.body = <<>>
           /\ HasEvent(r, "complete")
           /\ \E p \in ProcsOf(r) : /\ procs[p].st = "closed"
                                      /\ procs[p].code = 0
                                      /\ procs[p].nout = 1

(***************************************************************************)
(* Properties of the retry sequence.                                       *)
(***************************************************************************)
Alive(p) == procs[p].st \in {"running", "errored"}

\* the subprocess appended in this step, if any
Spawned == Len(procs') = Len(procs) + 1

\* the attempts of each request so far are one after the other
Sequential ==
    \A r \in Reqs : \A p, q \in ProcsOf(r) :
        p # q => /\ ~(Alive(p) /\ Alive(q))
                 /\ procs[p].attempt # procs[q].attempt
                 /\ procs[q].attempt = procs[p].attempt + 1 =>
                        procs[p].st = "closed" /\ p < q

\* C20: in the retrying variant no two subprocesses of one request are
\* alive together and no attempt number occurs twice; attempt n + 1 is
\* spawned only by the retry timer that the terminating attempt n armed,
\* after attempt n has terminated and not before 2 seconds have passed
\* since the timer was armed.
C20_SequentialAttempts ==
    /\ [](variant = "retrying" => Sequential)
    /\ [][variant = "retrying" =>
             /\ \A t \in timers' \ timers :
                    /\ t.due = now + 2000
                    /\ procs[t.by].st = "running"
                    /\ procs'[t.by].st \in {"closed", "errored"}
                    /\ t.req = procs[t.by].req
                    /\ t.attempt = procs[t.by].attempt + 1
             /\ (Spawned /\ procs'[Len(procs')].attempt > 1) =>
                    \E t \in timers \ timers' :
                        /\ t.req = procs'[Len(procs')].req
                        /\ t.attempt = procs'[Len(procs')].attempt
                        /\ procs[t.by].st = "closed"
                        /\ now >= t.due]_vars

\* three attempts of one request, each spawned 2 seconds after the one
\* before it exited with code 1
C20_Witness ==
    /\ variant = "retrying"
    /\ now = 4000
    /\ \E r \in Reqs :
           /\ Cardinality(ProcsOf(r)) = 3
           /\ \E p \in ProcsOf(r) : /\ procs[p].attempt = 2
                                      /\ procs[p].st = "closed"
                                      /\ procs[p].code = 1
           /\ \E p \in ProcsOf(r) : procs[p].attempt = 3 /\ Alive(p)

(***************************************************************************)
(* Properties of the response across attempts.                             *)
(***************************************************************************)
\* the position in the response body of chunk k of subprocess p, 0 if the
\* chunk is not there
PosOf(r, p, k) ==
    LET body == reqs[r].res.body
    IN IF \E i \in 1..Len(body) : body[i] = <<p, k>>
       THEN CHOOSE i \in 1..Len(body) : body[i] = <<p, k>>
       ELSE 0

\* C21: in the retrying variant, when an attempt wrote bytes to the
\* response and failed, the chunks a later attempt of the request emits are
\* in the response too, after the earlier attempt's bytes.
C21_RestartedStream ==
    variant = "retrying" =>
        \A q \in Pids :
            LET r == procs[q].req IN
            (procs[q].attempt > 1 /\ procs[q].nout >= 1
             /\ \E p \in ProcsOf(r) : p < q /\ Written(p) # <<>>) =>
                /\ PosOf(r, q, 1) # 0
                /\ \A p \in ProcsOf(r) :
                       (p < q /\ Written(p) # <<>>) =>
                           PosOf(r, p, 1) < PosOf(r, q, 1)

(***************************************************************************)
(* Properties of the shared download entry.                                *)
(***************************************************************************)
\* C22: in the retrying variant, whenever the stderr handler of a running
\* subprocess handles a percentage line, the active-downloads map holds an
\* entry for the subprocess's id, and the step does not end the server.
C22_EntryPresent ==
    [][\A p \in Pids :
           (variant = "retrying" /\ StderrData(p, LinePercent)) =>
               /\ activeDownloads[procs[p].id] # NoEntry
               /\ ~crashed']_vars

(***************************************************************************)
(* Properties of checkRateLimit.                                           *)
(***************************************************************************)
\* the step is a /download request for which checkRateLimit(ip) is called
RateCall == NewRequest /\ HasRateLimit /\ reqs'[Len(reqs')].id # NoId

\* C23: a checkRateLimit(ip) call that rejects leaves the rate-limit map as
\* it was: neither is the instant of the call recorded nor is any list
\* rewritten.
C23_RejectFrame ==
    [][(RateCall /\ ~checkRateLimit(reqs'[Len(reqs')].ip)) =>
           /\ reqs'[Len(reqs')].res.status = 429
           /\ rateLimitMap' = rateLimitMap]_vars

\* a request rejected at an instant later than the three recorded ones
C23_Witness ==
    /\ HasRateLimit
    /\ \E r \in Reqs :
           /\ Rejected(r) /\ r = Len(reqs) /\ now = reqs[r].t
           /\ Len(rateLimitMap[reqs[r].ip]) = 3
           /\ \A i \in 1..3 : rateLimitMap[reqs[r].ip][i] < reqs[r].t

\* the list is in non-decreasing order
Sorted(list) == \A i, j \in 1..Len(list) : i < j => list[i] <= list[j]

\* C24: right after each checkRateLimit(ip) call, accepting or rejecting,
\* the list stored for ip holds at most 3 instants, in non-decreasing
\* order, each less than 60000 ms before the instant of the call.
C24_ListShape ==
    [][RateCall =>
           LET list == rateLimitMap'[reqs'[Len(reqs')].ip]
           IN /\ Len(list) <= 3
              /\ Sorted(list)
              /\ \A i \in 1..Len(list) : /\ list[i] <= now
                                         /\ now - list[i] < 60000]_vars

\* a call dropped an instant that was exactly 60000 ms old, and the list
\* was filled up to three again
C24_Witness ==
    /\ HasRateLimit
    /\ now = 60000
    /\ rateLimitMap["ip1"] = <<30000, 60000, 60000>>
    /\ \E r \in Reqs : /\ Accepted(r) /\ reqs[r].ip = "ip1" /\ reqs[r].t = 0

(***************************************************************************)
(* Properties of the phase classification.                                 *)
(***************************************************************************)
\* the classes in the order in which they are tried: a class matches a
\* chunk that holds one of `any`, or all of `all` when `any` is empty
PhaseTable ==
    <<[phase |-> "extracting", step |-> 1, color |-> "#ff6b6b",
       any |-> {"Extracting URL"}, all |-> {}],
      [phase |-> "webpage", step |-> 2, color |-> "#ffa500",
       any |-> {"Downloading webpage"}, all |-> {}],
      [phase |-> "api", step |-> 3, color |-> "#ffff00",
       any |-> {"Downloading android", "player API"}, all |-> {}],
      [phase |-> "info", step |-> 4, color |-> "#87ceeb",
       any |-> {"Downloading m3u8", "information"}, all |-> {}],
      [phase |-> "downloading", step |-> 5, color |-> "#00ff00",
       any |-> {}, all |-> {"[download]", "%"}],
      [phase |-> "preparing", step |-> 0, color |-> "#ff6b6b",
       any |-> {}, all |-> {}]>>

Matches(class, marks) ==
    IF class.any # {} THEN class.any \cap marks # {}
    ELSE class.all \subseteq marks

FirstMatch(marks) ==
    PhaseTable[CHOOSE i \in 1..6 :
                   /\ Matches(PhaseTable[i], marks)
                   /\ \A j \in 1..(i - 1) : ~Matches(PhaseTable[j], marks)]

EventsOfType(events, type) == SelectSeq(events, LAMBDA e : e.type = type)

\* C25: a stderr chunk falls in the first class of the table that matches
\* it, with that class's step and color; when it is of the downloading
\* class and a percentage was parsed its handler broadcasts one progress
\* event and no phase event, and otherwise one phase event and no progress
\* event, and the phase event carries the phase and color of the class and
\* a message whose step number is the step of the class.
C25_Classification ==
    [][\A p \in Pids, chunk \in ClassifyChunks :
           StderrData(p, chunk) =>
               LET class == FirstMatch(chunk.marks)
                   sent == NewEvents(procs[p].req)
                   parsed == class.phase = "downloading" /\ chunk.pct # NoPct
               IN /\ classify(chunk).phase = class.phase
                  /\ classify(chunk).step = class.step
                  /\ classify(chunk).color = class.color
                  /\ Len(EventsOfType(sent, "progress")) = IF parsed THEN 1 ELSE 0
                  /\ Len(EventsOfType(sent, "phase")) = IF parsed THEN 0 ELSE 1
                  /\ ~parsed =>
                         /\ EventsOfType(sent, "phase")[1].phase = class.phase
                         /\ EventsOfType(sent, "phase")[1].color = class.color
                         /\ EventsOfType(sent, "phase")[1].step = class.step]_vars

(***************************************************************************)
(* Properties of the response headers.                                     *)
(***************************************************************************)
\* C26: in the retrying variant, an attempt is spawned, and its
\* res.setHeader calls are made, only while the headers of the request's
\* response have not been sent; every attempt gets its handlers and the
\* request's promise is not rejected by the spawn.
C26_HeadersOnce ==
    [][(variant = "retrying" /\ Spawned) =>
           LET q == procs'[Len(procs')]
           IN /\ ~reqs'[q.req].res.headersSent
              /\ q.listeners
              /\ reqs'[q.req].promise # "rejected"]_vars

(***************************************************************************)
(* Properties of termination.                                              *)
(***************************************************************************)
\* request r is over: its response has been ended, none of its
\* subprocesses is running and no retry of it is pending
Finished(r) ==
    /\ r \in Reqs
    /\ reqs[r].res.ended
    /\ \A p \in ProcsOf(r) : procs[p].st = "closed"
    /\ \A t \in timers : t.req # r

\* C27: when every subprocess terminates, every accepted download request
\* eventually is over: its response ended (the stream ended, or a 500
\* sent), no subprocess of it running, no retry timer of it pending.
C27_EventuallyFinished ==
    \A r \in LiveReqs :
        (r \in Reqs /\ reqs[r].outcome = "accepted") ~> Finished(r)

\* the same for the two piping variants alone
PipingFinishes ==
    \A r \in LiveReqs :
        (r \in Reqs /\ reqs[r].outcome = "accepted" /\ variant # "retrying")
            ~> Finished(r)

(***************************************************************************)
(* Properties of the terminal events.                                      *)
(***************************************************************************)
\* C28: in every variant, once a download has failed for good (its last
\* subprocess ended with a non-zero code or could not be spawned, and
\* nothing of the request is left to run), an error event for its id has
\* been broadcast.
C28_FailureBroadcast ==
    \A r \in Reqs :
        (TerminalFailure(r) /\ ~crashed) => HasEvent(r, "error")

\* the positions of the terminal events among the events of request r
Terminals(r) ==
    {i \in 1..Len(reqs[r].events) :
         reqs[r].events[i].type \in {"complete", "error"}}

\* C29: among the events broadcast for one request there is at most one
\* terminal event (complete or error), and it is the last event: no
\* progress, phase, complete or error event follows it.
C29_OneTerminalEvent ==
    \A r \in Reqs :
        /\ Cardinality(Terminals(r)) <= 1
        /\ \A i \in Terminals(r) : i = Len(reqs[r].events)

\* the complete events broadcast in this step for request r
NewCompletes(r) == EventsOfType(NewEvents(r), "complete")

\* C30: a complete event for an id is broadcast only by the step in which
\* a subprocess of that id and request reports its exit with code 0, and in
\* the retrying variant only if that subprocess emitted stdout data; so a
\* request with a complete event has a subprocess that exited with code 0.
C30_CompleteOnlyOnSuccess ==
    /\ [](\A r \in Reqs :
              HasEvent(r, "complete") =>
                  \E p \in ProcsOf(r) :
                      /\ procs[p].st = "closed" /\ procs[p].code = 0
                      /\ variant = "retrying" => procs[p].nout >= 1)
    /\ [][\A r \in Reqs :
              NewCompletes(r) # <<>> =>
                  /\ Len(NewCompletes(r)) = 1
                  /\ NewCompletes(r)[1].id = reqs[r].id
                  /\ \E p \in ProcsOf(r) :
                         /\ procs[p].st = "running"
                         /\ procs'[p].st = "closed" /\ procs'[p].code = 0
                         /\ variant = "retrying" => procs[p].nout >= 1]_vars

\* the simple server broadcast a complete event when the subprocess, whose
\* data had been piped to the response, exited with code 0
C30_Witness ==
    /\ variant = "simple"
    /\ \E r \in Reqs :
           /\ HasEvent(r, "complete")
           /\ Len(reqs[r].res.body) = 2 /\ reqs[r].res.ended
           /\ \A p \in ProcsOf(r) : procs[p].st = "closed" /\ procs[p].code = 0

====
